---------------------------- MODULE Spec2Model ----------------------------
(***************************************************************************)
(* A model of socket.io's Namespace (src/lib/namespace.ts): the registry   *)
(* of connected sockets, the middleware chain and the admission pipeline   *)
(* (use, run, _add, _remove), run on a model of the JavaScript event loop  *)
(* (one synchronous job at a time, process.nextTick callbacks drained when *)
(* the job has ended).                                                     *)
(***************************************************************************)
EXTENDS Integers, Sequences, FiniteSets, TLC

(***************************************************************************)
(* Bounds of the model.                                                    *)
(***************************************************************************)
\* Socket objects constructed by _add over one behaviour.
MaxSockets == 2
\* Middleware registered with use() over one behaviour.
MaxFns == 2
\* Per admission, continuation calls beyond the first one of an invocation
\* (a middleware that calls next() again).
MaxExtra == 1

\* Sockets of the specification that draws every error, protocol and
\* readyState.
MaxSolo == 1
\* BroadcastOperator objects constructed over one behaviour.
MaxOps == 2

SocketIds == 1..MaxSockets
FnIds == 1..MaxFns

(***************************************************************************)
(* JavaScript values that the admission pipeline inspects.                 *)
(***************************************************************************)
Undefined == [type |-> "undefined", value |-> ""]
Str(s) == [type |-> "string", value |-> s]
\* ToBoolean of undefined and of a string.
Truthy(v) == v.type # "undefined" /\ v.value # ""
\* a || b
Or(a, b) == IF Truthy(a) THEN a ELSE b

\* The null passed to run's callback when no middleware rejected.
Null == [type |-> "null"]
\* ExtendedError values a middleware may hand to its continuation: a message,
\* and data that is absent, present but falsy (""), or present and truthy.
Errors ==
  { [message |-> Str("auth failed"), data |-> d] :
      d \in {Undefined, Str(""), Str("retry")} }
\* if (err)
IsErr(err) == err # Null

\* The error of a middleware that rejects with new Error("auth failed").
Reject == [message |-> Str("auth failed"), data |-> Undefined]

\* client.conn.readyState and client.conn.protocol
ReadyStates == {"open", "closing", "closed"}
Protocols == {3, 4}

VARIABLES
  _fns,        \* Namespace._fns: the middleware chain
  sockets,     \* Namespace.sockets: Map<SocketId, Socket>
  nsock,       \* number of Socket objects constructed by _add so far
  conn,        \* conn[s]: readyState and protocol of socket s's client.conn
  cb,          \* cb[s]: whether _add was given the completion callback fn
  fns,         \* fns[s]: run's local copy of _fns for socket s
  pend,        \* pend[s][i]: invocations of fns[s][i] that have not called next
  calledOk,    \* calledOk[s]: indices whose continuation was called with no error
  calledErr,   \* calledErr[s]: indices whose continuation was called with an error
  extra,       \* extra[s]: repeated continuation calls made for socket s
  tickQueue,   \* process.nextTick queue: the deferred steps of _add
  running,     \* a synchronous job is on the call stack
  addedInJob,  \* sockets returned by _add to the job on the call stack
  thrown,      \* the last call into the namespace threw
  removed,     \* sockets that _remove has been called with
  sids,        \* adapter.sids: the rooms each socket identifier is a member of
  ops,         \* the BroadcastOperator objects constructed, in order
  given,       \* given[o]: the rooms handed to to/in and to except on the way to ops[o]
  lastEmit,    \* the last call of emit: its event, and what became of it
  lastQuery,   \* the last call of allSockets or fetchSockets: when, and its result
  trace        \* trace[s]: calls the deferred steps made for socket s, in order

vars ==
  << _fns, sockets, nsock, conn, cb, fns, pend, calledOk, calledErr, extra,
     tickQueue, running, addedInJob, thrown, removed, sids, ops, given,
     lastEmit, lastQuery, trace >>

\* The state of the broadcast surface.
bcastVars == << ops, given, lastEmit, lastQuery >>

(***************************************************************************)
(* The event loop.  A call into the namespace is made by the job on the    *)
(* call stack; a new job starts only when the nextTick queue is drained.   *)
(***************************************************************************)
InJob == running \/ tickQueue = << >>

\* A variant of Deferred: the callback is called inline.
DeferredInline(run) == TRUE

\* process.nextTick(cb): cb runs once the job that scheduled it has ended.
Deferred(run) == ~run

\* The job on the call stack returns to the event loop.
EndJob ==
  /\ running
  /\ running' = FALSE
  /\ addedInJob' = {}
  /\ UNCHANGED << _fns, sockets, nsock, conn, cb, fns, pend, calledOk,
                  calledErr, extra, tickQueue, thrown, removed, sids, trace >>
  /\ UNCHANGED bcastVars

(***************************************************************************)
(* Namespace.use                                                           *)
(***************************************************************************)
\* A variant of Push: fn is put first.
PushFront(chain, fn) == << fn >> \o chain

\* this._fns.push(fn)
Push(chain, fn) == Append(chain, fn)

use(fn) ==
  /\ InJob
  /\ Len(_fns) < MaxFns
  /\ _fns' = Push(_fns, fn)
  /\ running' = TRUE
  /\ thrown' = FALSE
  /\ UNCHANGED << sockets, nsock, conn, cb, fns, pend, calledOk, calledErr,
                  extra, tickQueue, addedInJob, removed, sids, trace >>
  /\ UNCHANGED bcastVars

(***************************************************************************)
(* Namespace.run.  Indices are 1-based here: fns[i] of the model is        *)
(* fns[i - 1] of the code.  A step of run either invokes a middleware      *)
(* ("run", its index) or calls run's callback fn ("fn", its argument).     *)
(***************************************************************************)
\* this._fns.slice(0)
Slice(chain) == chain

CallFn(err) == [do |-> "fn", err |-> err, i |-> 0]
CallRun(i) == [do |-> "run", err |-> Null, i |-> i]

\* A variant of RunStart: the chain is entered at its second function.
RunStartSecond(chain) ==
  IF Len(chain) = 0 THEN CallFn(Null) ELSE CallRun(2)

\* const fns = ...; if (!fns.length) return fn(null); ...; run(0)
RunStart(chain) ==
  IF Len(chain) = 0 THEN CallFn(Null) ELSE CallRun(1)

\* A variant of Continuation: an error does not short-circuit the chain.
ContinuationNoShortCircuit(chain, i, err) ==
  IF i + 1 > Len(chain) THEN CallFn(err) ELSE CallRun(i + 1)

\* A variant of Continuation: the continuation reads this._fns, not the
\* copy run made.
ContinuationLive(chain, i, err) ==
  IF IsErr(err) THEN CallFn(err)
  ELSE IF i + 1 > Len(_fns) THEN CallFn(Null)
  ELSE CallRun(i + 1)

\* The continuation handed to fns[i], called with err.
Continuation(chain, i, err) ==
  IF IsErr(err) THEN CallFn(err)
  ELSE IF i + 1 > Len(chain) THEN CallFn(Null)
  ELSE CallRun(i + 1)

\* The effect of a step of run for socket s: fns[i] is invoked, or _add's
\* callback schedules its deferred step with process.nextTick.
Invoke(s, st, p) ==
  /\ pend' = IF st.do = "run" THEN [p EXCEPT ![s][st.i] = @ + 1] ELSE p
  /\ tickQueue' =
       IF st.do = "fn"
         THEN Append(tickQueue, [sock |-> s, err |-> st.err])
         ELSE tickQueue

(***************************************************************************)
(* Namespace._add                                                          *)
(***************************************************************************)
\* socket.id of the s-th Socket constructed: identifiers are unique.
SocketId(s) == << "sid1", "sid2", "sid3", "sid4" >>[s]

_add(proto, hasFn) ==
  /\ InJob
  /\ LET s == nsock + 1 IN
       /\ nsock' = s
       /\ conn' = [conn EXCEPT ![s] = [readyState |-> "open", protocol |-> proto]]
       /\ cb' = [cb EXCEPT ![s] = hasFn]
       /\ fns' = [fns EXCEPT ![s] = Slice(_fns)]
       /\ Invoke(s, RunStart(Slice(_fns)), pend)
       /\ addedInJob' = addedInJob \cup {s}
  /\ running' = TRUE
  /\ thrown' = FALSE
  /\ UNCHANGED << _fns, sockets, calledOk, calledErr, extra, removed, sids,
                  trace >>
  /\ UNCHANGED bcastVars

\* A middleware invoked for socket s as fns[i] calls its continuation with
\* err: for the first time, or once more.
next(s, i, err) ==
  /\ InJob
  /\ s \in 1..nsock
  /\ i \in 1..Len(fns[s])
  /\ \E first \in BOOLEAN :
       /\ IF first
            THEN /\ pend[s][i] > 0
                 /\ extra' = extra
            ELSE /\ i \in calledOk[s] \cup calledErr[s]
                 /\ extra[s] < MaxExtra
                 /\ extra' = [extra EXCEPT ![s] = @ + 1]
       /\ Invoke(s, Continuation(fns[s], i, err),
                 IF first THEN [pend EXCEPT ![s][i] = @ - 1] ELSE pend)
  /\ calledOk' = IF IsErr(err) THEN calledOk
                 ELSE [calledOk EXCEPT ![s] = @ \cup {i}]
  /\ calledErr' = IF IsErr(err) THEN [calledErr EXCEPT ![s] = @ \cup {i}]
                  ELSE calledErr
  /\ running' = TRUE
  /\ UNCHANGED << _fns, sockets, nsock, conn, cb, fns, addedInJob, thrown,
                  removed, sids, trace >>
  /\ UNCHANGED bcastVars

\* The transport of socket s's client leaves the open state.
Close(s, rs) ==
  /\ InJob
  /\ s \in 1..nsock
  /\ \/ conn[s].readyState = "open" /\ rs \in {"closing", "closed"}
     \/ conn[s].readyState = "closing" /\ rs = "closed"
  /\ conn' = [conn EXCEPT ![s].readyState = rs]
  /\ running' = TRUE
  /\ UNCHANGED << _fns, sockets, nsock, cb, fns, pend, calledOk, calledErr,
                  extra, tickQueue, addedInJob, thrown, removed, sids, trace >>
  /\ UNCHANGED bcastVars

(***************************************************************************)
(* The deferred step of _add: the callback given to process.nextTick.      *)
(***************************************************************************)
Ev(name, s, payload) == [ev |-> name, sock |-> s, payload |-> payload]

\* A variant of IsOpen: only a closed transport is refused.
IsOpenUnlessClosed(rs) == "closed" # rs

\* "open" == client.conn.readyState
IsOpen(rs) == "open" = rs

\* A variant of ErrorPayload: the structured payload whatever the protocol.
ErrorPayloadStructured(proto, err) ==
  [message |-> err.message, data |-> err.data]

\* The argument of socket._error.
ErrorPayload(proto, err) ==
  IF proto = 3
    THEN Or(err.data, err.message)
    ELSE [message |-> err.message, data |-> err.data]

\* A variant of MapSet: the map holds the new entry alone.
MapSetAlone(map, id, s) == [k \in {id} |-> s]

\* this.sockets.set(id, s)
MapSet(map, id, s) ==
  [k \in DOMAIN map \cup {id} |-> IF k = id THEN s ELSE map[k]]

\* A variant of Connect: "connect" is emitted before socket._onconnect().
ConnectNotifiesFirst(s, hasFn) ==
  << Ev("connect", s, Undefined), Ev("_onconnect", s, Undefined) >>
  \o (IF hasFn THEN << Ev("fn", s, Undefined) >> ELSE << >>)
  \o << Ev("connection", s, Undefined) >>

\* A variant of Connect: "connection" is not emitted.
ConnectWithoutConnection(s, hasFn) ==
  << Ev("_onconnect", s, Undefined) >>
  \o (IF hasFn THEN << Ev("fn", s, Undefined) >> ELSE << >>)
  \o << Ev("connect", s, Undefined) >>

\* The calls made once the socket is tracked, in order.
Connect(s, hasFn) ==
  << Ev("_onconnect", s, Undefined) >>
  \o (IF hasFn THEN << Ev("fn", s, Undefined) >> ELSE << >>)
  \o << Ev("connect", s, Undefined), Ev("connection", s, Undefined) >>

\* A variant of DeferredStep: after socket._error the step goes on.
DeferredStepFallsThrough(map, s, c, hasFn, err) ==
  IF IsOpen(c.readyState)
    THEN [sockets |-> MapSet(map, SocketId(s), s),
          calls |-> (IF IsErr(err)
                       THEN << Ev("_error", s, ErrorPayload(c.protocol, err)) >>
                       ELSE << >>)
                    \o << Ev("set", s, Undefined) >> \o Connect(s, hasFn)]
    ELSE [sockets |-> map, calls |-> << >>]

\* A variant of DeferredStep: the socket is tracked whatever the transport.
DeferredStepUnguarded(map, s, c, hasFn, err) ==
  IF IsErr(err)
    THEN IF IsOpen(c.readyState)
           THEN [sockets |-> map,
                 calls |-> << Ev("_error", s, ErrorPayload(c.protocol, err)) >>]
           ELSE [sockets |-> map, calls |-> << >>]
    ELSE [sockets |-> MapSet(map, SocketId(s), s),
          calls |-> << Ev("set", s, Undefined) >> \o Connect(s, hasFn)]

\* The deferred step for socket s with client.conn c: the sockets map after
\* it and the calls it made.
DeferredStep(map, s, c, hasFn, err) ==
  IF IsOpen(c.readyState)
    THEN IF IsErr(err)
           THEN [sockets |-> map,
                 calls |-> << Ev("_error", s, ErrorPayload(c.protocol, err)) >>]
           ELSE [sockets |-> MapSet(map, SocketId(s), s),
                 calls |-> << Ev("set", s, Undefined) >> \o Connect(s, hasFn)]
    ELSE [sockets |-> map, calls |-> << >>]

\* socket._onconnect(): the socket joins the room named by its identifier.
OnConnect(members, id) == MapSet(members, id, {id})

Tick ==
  /\ tickQueue # << >>
  /\ Deferred(running)
  /\ LET t == Head(tickQueue)
         r == DeferredStep(sockets, t.sock, conn[t.sock], cb[t.sock], t.err)
     IN  /\ tickQueue' = Tail(tickQueue)
         /\ sockets' = r.sockets
         /\ trace' = [trace EXCEPT ![t.sock] = @ \o r.calls]
         /\ sids' = IF \E k \in 1..Len(r.calls) : r.calls[k].ev = "_onconnect"
                      THEN OnConnect(sids, SocketId(t.sock))
                      ELSE sids
  /\ UNCHANGED << _fns, nsock, conn, cb, fns, pend, calledOk, calledErr,
                  extra, running, addedInJob, thrown, removed >>
  /\ UNCHANGED bcastVars

(***************************************************************************)
(* Namespace._remove                                                       *)
(***************************************************************************)
\* this.sockets.delete(id)
MapDelete(map, id) == [k \in DOMAIN map \ {id} |-> map[k]]

\* A variant of RemoveResult: an unknown identifier is an error.
RemoveResultStrict(map, id) ==
  IF id \in DOMAIN map
    THEN [sockets |-> MapDelete(map, id), threw |-> FALSE]
    ELSE [sockets |-> map, threw |-> TRUE]

\* The sockets map after _remove of the socket with identifier id, and
\* whether the call threw.
RemoveResult(map, id) ==
  IF id \in DOMAIN map
    THEN [sockets |-> MapDelete(map, id), threw |-> FALSE]
    ELSE [sockets |-> map, threw |-> FALSE]

_remove(s) ==
  /\ InJob
  /\ s \in 1..nsock
  /\ sockets' = RemoveResult(sockets, SocketId(s)).sockets
  /\ thrown' = RemoveResult(sockets, SocketId(s)).threw
  /\ removed' = removed \cup {s}
  /\ running' = TRUE
  /\ UNCHANGED << _fns, nsock, conn, cb, fns, pend, calledOk, calledErr,
                  extra, tickQueue, addedInJob, sids, trace >>
  /\ UNCHANGED bcastVars

(***************************************************************************)
(* The specification of the admission pipeline.                            *)
(***************************************************************************)
Init ==
  /\ _fns = << >>
  /\ sockets = << >>
  /\ nsock = 0
  /\ conn = [s \in SocketIds |-> [readyState |-> "open", protocol |-> 4]]
  /\ cb = [s \in SocketIds |-> FALSE]
  /\ fns = [s \in SocketIds |-> << >>]
  /\ pend = [s \in SocketIds |-> [i \in FnIds |-> 0]]
  /\ calledOk = [s \in SocketIds |-> {}]
  /\ calledErr = [s \in SocketIds |-> {}]
  /\ extra = [s \in SocketIds |-> 0]
  /\ tickQueue = << >>
  /\ running = FALSE
  /\ addedInJob = {}
  /\ thrown = FALSE
  /\ removed = {}
  /\ sids = << >>
  /\ ops = << >>
  /\ given = << >>
  /\ lastEmit = [ev |-> "", via |-> 0, reached |-> FALSE, threw |-> FALSE,
                 to |-> {}]
  /\ lastQuery = [method |-> "", after |-> 0, result |-> {}]
  /\ trace = [s \in SocketIds |-> << >>]

\* The calls and events of the environment: at most n sockets, errors drawn
\* from errs, protocols from protos, whether _add is given a callback from
\* cbs, readyStates from states.  Each use()
\* registers a new function, named by its place in registration order.
Moves(n, errs, protos, cbs, states) ==
  \/ \E fn \in FnIds : fn = Len(_fns) + 1 /\ use(fn)
  \/ \E proto \in protos, hasFn \in cbs : nsock < n /\ _add(proto, hasFn)
  \/ \E s \in SocketIds, i \in FnIds, err \in errs \cup {Null} : next(s, i, err)
  \/ \E s \in SocketIds, rs \in states : Close(s, rs)
  \/ \E s \in SocketIds : _remove(s)
  \/ Tick
  \/ EndJob

\* Concurrent admissions, with one error value, the current protocol and a
\* completion callback.
Next == Moves(MaxSockets, {Reject}, {4}, {TRUE}, {"closed"})

Spec == Init /\ [][Next]_vars

\* One admission, with every error value, protocol and readyState.
NextSolo == Moves(MaxSolo, Errors, Protocols, BOOLEAN, ReadyStates)

SpecSolo == Init /\ [][NextSolo]_vars

\* One admission, under the scheduling of the event loop: the job on the
\* call stack runs to completion, and the nextTick queue is drained once no
\* job is on the call stack.
NextLive == Moves(MaxSolo, {Reject}, {4}, {TRUE}, {"closed"})

SpecLive ==
  Init /\ [][NextLive]_vars /\ WF_vars(EndJob) /\ WF_vars(Tick)

(***************************************************************************)
(* The broadcast surface.  BroadcastOperator and the adapter are modelled  *)
(* from the specification (sections 4.2 and 4.3); the methods of Namespace *)
(* that construct an operator and delegate to it are modelled from the     *)
(* code.                                                                   *)
(***************************************************************************)
\* Room | Room[] arguments, as sets of rooms: of to, in and except (a room
\* of the application, the room of the first socket), and of socketsJoin.
RoomArgs == { {"room1"}, {"sid1"} }
JoinArgs == { {"room1"} }

\* The event names reserved for lifecycle signalling.
ReservedEvents ==
  { "connect", "connecting", "connection", "disconnect", "disconnecting",
    "newListener", "removeListener" }
Events == ReservedEvents \cup {"greet"}

\* new BroadcastOperator(adapter): no rooms, no excluded rooms, no flags.
NewOperator == [rooms |-> {}, exceptRooms |-> {}, flags |-> << >>]

\* BroadcastOperator.to, .in, .except and .volatile: the operator returned.
OpTo(op, room) == [op EXCEPT !.rooms = @ \cup room]
OpIn(op, room) == OpTo(op, room)
OpExcept(op, room) == [op EXCEPT !.exceptRooms = @ \cup room]
OpVolatile(op) == [op EXCEPT !.flags = MapSet(@, "volatile", TRUE)]

\* The adapter's resolution of a target: the sockets of the namespace that
\* are members of a room of rooms (any socket, when rooms is empty) and of
\* no room of exceptRooms.
Matching(map, members, rooms, exceptRooms) ==
  { id \in DOMAIN map \cap DOMAIN members :
      /\ rooms = {} \/ members[id] \cap rooms # {}
      /\ members[id] \cap exceptRooms = {} }

\* adapter.broadcast(packet, opts): the sockets the packet is sent to.
Broadcast(map, members, op) ==
  [reached |-> TRUE, threw |-> FALSE,
   to |-> Matching(map, members, op.rooms, op.exceptRooms)]

\* BroadcastOperator.emit: a reserved event name is an error.
OpEmit(map, members, op, ev) ==
  IF ev \in ReservedEvents
    THEN [reached |-> FALSE, threw |-> TRUE, to |-> {}]
    ELSE Broadcast(map, members, op)

\* BroadcastOperator.socketsJoin: adapter.sids after it.
OpSocketsJoin(map, members, op, room) ==
  [id \in DOMAIN members |->
     IF id \in Matching(map, members, op.rooms, op.exceptRooms)
       THEN members[id] \cup room
       ELSE members[id]]

\* A variant of NsIn: the rooms are excluded.
NsInExcludes(room) == OpExcept(NewOperator, room)
\* A variant of NsExcept: the rooms are targeted.
NsExceptTargets(room) == OpTo(NewOperator, room)
\* A variant of NsEmit: the packet is handed to the adapter directly.
NsEmitUnchecked(map, members, ev) == Broadcast(map, members, NewOperator)

\* A variant of NsVolatile: the operator is returned without the flag.
NsVolatileUnflagged == NewOperator

\* Namespace.to, .in, .except, .volatile, .emit and .socketsJoin.
NsTo(room) == OpTo(NewOperator, room)
NsIn(room) == OpIn(NewOperator, room)
NsExcept(room) == OpExcept(NewOperator, room)
NsVolatile == OpVolatile(NewOperator)
NsEmit(map, members, ev) == OpEmit(map, members, NewOperator, ev)
NsSocketsJoin(map, members, room) ==
  OpSocketsJoin(map, members, NewOperator, room)

\* What a call of the broadcast surface leaves alone.
admVars ==
  << _fns, sockets, nsock, conn, cb, fns, pend, calledOk, calledErr, extra,
     tickQueue, addedInJob, removed, trace >>

\* A method returns the operator op; g is what its caller asked for so far.
Return(op, g) ==
  /\ InJob
  /\ Len(ops) < MaxOps
  /\ ops' = Append(ops, op)
  /\ given' = Append(given, g)
  /\ running' = TRUE
  /\ thrown' = FALSE
  /\ UNCHANGED << admVars, sids, lastEmit, lastQuery >>

\* Nothing asked for yet, and one more call of to/in, of except or of
\* volatile (vol counts the applications of volatile).
NoneGiven == [to |-> {}, ex |-> {}, vol |-> 0]
GivenTo(g, room) == [g EXCEPT !.to = @ \cup room]
GivenExcept(g, room) == [g EXCEPT !.ex = @ \cup room]
GivenVolatile(g) == [g EXCEPT !.vol = @ + 1]

\* The methods called on the namespace.
to(room) == Return(NsTo(room), GivenTo(NoneGiven, room))
in(room) == Return(NsIn(room), GivenTo(NoneGiven, room))
except(room) == Return(NsExcept(room), GivenExcept(NoneGiven, room))
volatile == Return(NsVolatile, GivenVolatile(NoneGiven))

\* The methods called on the operator ops[o].
op_to(o, room) ==
  o \in 1..Len(ops) /\ Return(OpTo(ops[o], room), GivenTo(given[o], room))
op_in(o, room) ==
  o \in 1..Len(ops) /\ Return(OpIn(ops[o], room), GivenTo(given[o], room))
op_except(o, room) ==
  o \in 1..Len(ops)
    /\ Return(OpExcept(ops[o], room), GivenExcept(given[o], room))
op_volatile(o) ==
  o \in 1..Len(ops) /\ Return(OpVolatile(ops[o]), GivenVolatile(given[o]))

\* emit returned or threw: r is what became of the call.
Emitted(ev, o, r) ==
  /\ InJob
  /\ lastEmit' = [ev |-> ev, via |-> o, reached |-> r.reached,
                  threw |-> r.threw, to |-> r.to]
  /\ thrown' = r.threw
  /\ running' = TRUE
  /\ UNCHANGED << admVars, sids, ops, given, lastQuery >>

emit(ev) == Emitted(ev, 0, NsEmit(sockets, sids, ev))
op_emit(o, ev) ==
  o \in 1..Len(ops) /\ Emitted(ev, o, OpEmit(sockets, sids, ops[o], ev))

\* socketsJoin returned: members is adapter.sids after it.
Joined(members) ==
  /\ InJob
  /\ sids' = members
  /\ thrown' = FALSE
  /\ running' = TRUE
  /\ UNCHANGED << admVars, ops, given, lastEmit, lastQuery >>

socketsJoin(room) == Joined(NsSocketsJoin(sockets, sids, room))
op_socketsJoin(o, room) ==
  o \in 1..Len(ops) /\ Joined(OpSocketsJoin(sockets, sids, ops[o], room))

\* Admissions with no middleware, removals, and calls of the broadcast
\* surface.
NextBroadcast ==
  \/ nsock < MaxSockets /\ _add(4, TRUE)
  \/ Tick
  \/ EndJob
  \/ \E s \in SocketIds : _remove(s)
  \/ \E room \in RoomArgs : to(room)
  \/ \E room \in RoomArgs : in(room)
  \/ \E room \in RoomArgs : except(room)
  \/ volatile
  \/ \E o \in 1..MaxOps, room \in RoomArgs : op_to(o, room)
  \/ \E o \in 1..MaxOps, room \in RoomArgs : op_in(o, room)
  \/ \E o \in 1..MaxOps, room \in RoomArgs : op_except(o, room)
  \/ \E o \in 1..MaxOps : op_volatile(o)
  \/ \E ev \in Events : emit(ev)
  \/ \E o \in 1..MaxOps, ev \in Events : op_emit(o, ev)
  \/ \E room \in JoinArgs : socketsJoin(room)
  \/ \E o \in 1..MaxOps, room \in JoinArgs : op_socketsJoin(o, room)

SpecBroadcast == Init /\ [][NextBroadcast]_vars

(***************************************************************************)
(* The rest of the surface of the namespace: compress, local, allSockets,  *)
(* fetchSockets, socketsLeave and disconnectSockets.                       *)
(***************************************************************************)
\* BroadcastOperator.compress and .local: the operator returned.
OpCompress(op, compress) == [op EXCEPT !.flags = MapSet(@, "compress", compress)]
OpLocal(op) == [op EXCEPT !.flags = MapSet(@, "local", TRUE)]

\* BroadcastOperator.allSockets: the identifiers of the matching sockets.
OpAllSockets(map, members, op) ==
  Matching(map, members, op.rooms, op.exceptRooms)

\* BroadcastOperator.fetchSockets: a handle (identifier, rooms) for each
\* matching socket.
OpFetchSockets(map, members, op) ==
  { [id |-> id, rooms |-> members[id]] :
      id \in Matching(map, members, op.rooms, op.exceptRooms) }

\* BroadcastOperator.socketsLeave: adapter.sids after it.
OpSocketsLeave(map, members, op, room) ==
  [id \in DOMAIN members |->
     IF id \in Matching(map, members, op.rooms, op.exceptRooms)
       THEN members[id] \ room
       ELSE members[id]]

\* BroadcastOperator.disconnectSockets: the sockets told to disconnect.
OpDisconnectSockets(map, members, op) ==
  Matching(map, members, op.rooms, op.exceptRooms)

\* A variant of NsAllSockets: the operator returned last is used again.
NsAllSocketsCarried(map, members) ==
  OpAllSockets(map, members,
               IF ops = << >> THEN NewOperator ELSE ops[Len(ops)])

\* Namespace.compress, .local, .allSockets, .fetchSockets, .socketsLeave and
\* .disconnectSockets.
NsCompress(compress) == OpCompress(NewOperator, compress)
NsLocal == OpLocal(NewOperator)
NsAllSockets(map, members) == OpAllSockets(map, members, NewOperator)
NsFetchSockets(map, members) == OpFetchSockets(map, members, NewOperator)
NsSocketsLeave(map, members, room) ==
  OpSocketsLeave(map, members, NewOperator, room)
NsDisconnectSockets(map, members) ==
  OpDisconnectSockets(map, members, NewOperator)

compress(c) == Return(NsCompress(c), NoneGiven)
local == Return(NsLocal, NoneGiven)

\* allSockets or fetchSockets returned a promise of result, after Len(ops)
\* operators were constructed.
Queried(method, result) ==
  /\ InJob
  /\ lastQuery' = [method |-> method, after |-> Len(ops), result |-> result]
  /\ thrown' = FALSE
  /\ running' = TRUE
  /\ UNCHANGED << admVars, sids, ops, given, lastEmit >>

allSockets == Queried("allSockets", NsAllSockets(sockets, sids))
fetchSockets == Queried("fetchSockets", NsFetchSockets(sockets, sids))

socketsLeave(room) == Joined(NsSocketsLeave(sockets, sids, room))

\* The sockets with an identifier of ids.
SocketsOf(ids) == { s \in 1..nsock : SocketId(s) \in ids }

\* disconnectSockets returned: each socket of ids has left its rooms and has
\* called _remove; with close, its transport is closed as well.
Disconnected(ids, close) ==
  /\ InJob
  /\ sockets' = [k \in DOMAIN sockets \ ids |-> sockets[k]]
  /\ sids' = [k \in DOMAIN sids \ ids |-> sids[k]]
  /\ removed' = removed \cup SocketsOf(ids)
  /\ conn' = [s \in SocketIds |->
               IF close /\ s \in SocketsOf(ids)
                 THEN [conn[s] EXCEPT !.readyState = "closed"]
                 ELSE conn[s]]
  /\ thrown' = FALSE
  /\ running' = TRUE
  /\ UNCHANGED << _fns, nsock, cb, fns, pend, calledOk, calledErr, extra,
                  tickQueue, addedInJob, trace >>
  /\ UNCHANGED bcastVars

disconnectSockets(close) ==
  Disconnected(NsDisconnectSockets(sockets, sids), close)

\* The events emitted on the namespace: one of the application, one reserved.
NsEvents == {"greet", "connect"}

\* Admissions, and every method of the surface called on the namespace
\* itself; a socket leaves the namespace through disconnectSockets.
NextNamespace ==
  \/ nsock < MaxSockets /\ _add(4, TRUE)
  \/ Tick
  \/ EndJob
  \/ \E room \in JoinArgs : to(room)
  \/ \E room \in JoinArgs : in(room)
  \/ \E room \in JoinArgs : except(room)
  \/ \E c \in BOOLEAN : compress(c)
  \/ volatile
  \/ local
  \/ \E ev \in NsEvents : emit(ev)
  \/ allSockets
  \/ fetchSockets
  \/ \E room \in JoinArgs : socketsJoin(room)
  \/ \E room \in JoinArgs : socketsLeave(room)
  \/ \E close \in BOOLEAN : disconnectSockets(close)

SpecNamespace == Init /\ [][NextNamespace]_vars

\* Registrations of middleware, admissions, removals, and the targeting,
\* flag, emit and query methods called on the namespace.  A middleware
\* registered here is one that does not call its continuation.
NextFrame ==
  \/ \E fn \in FnIds : fn = Len(_fns) + 1 /\ use(fn)
  \/ nsock < MaxSockets /\ _add(4, TRUE)
  \/ Tick
  \/ EndJob
  \/ \E s \in SocketIds : _remove(s)
  \/ \E room \in JoinArgs : to(room)
  \/ \E room \in JoinArgs : in(room)
  \/ \E room \in JoinArgs : except(room)
  \/ \E c \in BOOLEAN : compress(c)
  \/ volatile
  \/ local
  \/ \E ev \in NsEvents : emit(ev)
  \/ allSockets
  \/ fetchSockets

SpecFrame == Init /\ [][NextFrame]_vars

(***************************************************************************)
(* What the claims speak of.                                               *)
(***************************************************************************)
RECURSIVE SumTo(_, _)
SumTo(f, n) == IF n = 0 THEN 0 ELSE f[n] + SumTo(f, n - 1)

\* fns[s][i] has been invoked for socket s.
Executed(s, i) == pend[s][i] > 0 \/ i \in calledOk[s] \cup calledErr[s]
\* Invocations of middleware for socket s that have not called next.
InProgress(s) == SumTo(pend[s], MaxFns)
\* Every middleware invoked for socket s called its continuation at most once.
CalledAtMostOnce(s) == extra[s] = 0
\* Socket s is in the sockets map.
Registered(s) == SocketId(s) \in DOMAIN sockets
\* The calls named by names, among those made for socket s.
Made(s, names) == SelectSeq(trace[s], LAMBDA e : e.ev \in names)
\* A deferred step for socket s is in the nextTick queue.
Queued(s) == \E k \in 1..Len(tickQueue) : tickQueue[k].sock = s
\* The socket of the deferred step at the head of the nextTick queue.
HeadSock == Head(tickQueue).sock

(***************************************************************************)
(* C1.  If the middleware at index k calls its continuation with an error, *)
(* no middleware at a greater index is ever executed for that admission    *)
(* and the socket is never added to sockets.                               *)
(***************************************************************************)
\* C1 as stated: for every middleware, however often it calls next.
C1_AsStated ==
  \A s \in 1..nsock : \A k \in calledErr[s] :
    /\ \A j \in FnIds : j > k => ~Executed(s, j)
    /\ ~Registered(s)
    /\ Made(s, {"set"}) = << >>

\* C1 amended: provided every middleware of the admission calls its
\* continuation at most once, an error at index k leaves every greater index
\* unexecuted and the socket is never set in sockets.
C1_ShortCircuit ==
  \A s \in 1..nsock : \A k \in calledErr[s] :
    CalledAtMostOnce(s) =>
      /\ \A j \in FnIds : j > k => ~Executed(s, j)
      /\ ~Registered(s)
      /\ Made(s, {"set"}) = << >>

\* The first of two middleware rejected, once, and the rejection was sent.
C1_Witness ==
  \E s \in 1..nsock :
    /\ CalledAtMostOnce(s)
    /\ Len(fns[s]) = 2
    /\ 1 \in calledErr[s]
    /\ Made(s, {"_error"}) # << >>

(***************************************************************************)
(* C2.  A successful admission sets the socket in sockets, then calls      *)
(* _onconnect(), then the completion callback if given, then emits         *)
(* "connect", then "connection"; each once, each with the socket.          *)
(***************************************************************************)
\* The calls of one successful admission of socket s, in order.
AdmissionCalls(s) ==
  IF cb[s]
    THEN << Ev("set", s, Undefined), Ev("_onconnect", s, Undefined),
            Ev("fn", s, Undefined), Ev("connect", s, Undefined),
            Ev("connection", s, Undefined) >>
    ELSE << Ev("set", s, Undefined), Ev("_onconnect", s, Undefined),
            Ev("connect", s, Undefined), Ev("connection", s, Undefined) >>

AdmissionNames == {"set", "_onconnect", "fn", "connect", "connection"}

\* C2 as stated: for every admission that succeeded.
C2_AsStated ==
  \A s \in 1..nsock :
    Made(s, AdmissionNames) # << >> => Made(s, AdmissionNames) = AdmissionCalls(s)

\* C2 amended: provided every middleware of the admission calls its
\* continuation at most once, the calls of a successful admission are made in
\* that order, each exactly once, each with the admission's socket.
C2_Order ==
  \A s \in 1..nsock :
    CalledAtMostOnce(s) /\ Made(s, AdmissionNames) # << >>
      => Made(s, AdmissionNames) = AdmissionCalls(s)

\* An admission through a middleware, with a completion callback, succeeded.
C2_Witness ==
  \E s \in 1..nsock :
    /\ CalledAtMostOnce(s)
    /\ Len(fns[s]) >= 1
    /\ cb[s]
    /\ Registered(s)
    /\ Len(Made(s, AdmissionNames)) = 5

(***************************************************************************)
(* C3.  A deferred step that finds an error and an open transport calls    *)
(* _error once, with a payload chosen by the protocol, and nothing else.   *)
(***************************************************************************)
\* The payload as stated: for protocol 3 the data if present, else the message.
PayloadAsStated(proto, err) ==
  IF proto = 3
    THEN IF err.data # Undefined THEN err.data ELSE err.message
    ELSE [message |-> err.message, data |-> err.data]

\* The payload as amended: for protocol 3 the data if truthy, else the message.
PayloadAmended(proto, err) ==
  IF proto = 3
    THEN IF Truthy(err.data) THEN err.data ELSE err.message
    ELSE [message |-> err.message, data |-> err.data]

\* The deferred step at the head of the queue runs with an error and an
\* open transport.
RejectingStep ==
  /\ Tick
  /\ IsErr(Head(tickQueue).err)
  /\ conn[HeadSock].readyState = "open"

\* The step calls _error once with payload p, and does nothing else.
OnlyError(p) ==
  /\ trace' = [trace EXCEPT ![HeadSock] = Append(@, Ev("_error", HeadSock, p))]
  /\ sockets' = sockets
  /\ sids' = sids

\* C3 as stated.
C3_AsStated ==
  [][RejectingStep =>
       OnlyError(PayloadAsStated(conn[HeadSock].protocol, Head(tickQueue).err))]_vars

\* C3 amended: for protocol 3 the payload is the error's data if that is
\* truthy, otherwise the error's message; for another protocol it is
\* {message, data}; _error is the only call of the step, and sockets is
\* unchanged.
C3_Payload ==
  [][RejectingStep =>
       OnlyError(PayloadAmended(conn[HeadSock].protocol, Head(tickQueue).err))]_vars

\* A rejection with truthy data was sent raw to a protocol 3 client.
C3_Witness ==
  \E s \in 1..nsock :
    /\ conn[s].protocol = 3
    /\ Made(s, {"_error"}) = << Ev("_error", s, Str("retry")) >>
    /\ ~Registered(s)

(***************************************************************************)
(* C4.  A deferred step that finds the transport not open does nothing,    *)
(* whether the pipeline ended with an error or not.                        *)
(***************************************************************************)
C4_Abandoned ==
  [][Tick /\ conn[HeadSock].readyState # "open"
       => trace' = trace /\ sockets' = sockets /\ sids' = sids]_vars

\* The pipeline of an admission ended, its deferred step ran with the
\* transport closing, and nothing was called.
C4_Witness ==
  \E s \in 1..nsock :
    /\ CalledAtMostOnce(s)
    /\ Len(fns[s]) \in calledOk[s]
    /\ ~Queued(s)
    /\ conn[s].readyState = "closing"
    /\ trace[s] = << >>
    /\ ~Registered(s)

(***************************************************************************)
(* C5.  While the job that called _add is on the call stack, the socket    *)
(* _add returned is not in sockets and no "connect" or "connection" was    *)
(* emitted for it.                                                         *)
(***************************************************************************)
C5_Deferred ==
  \A s \in addedInJob :
    /\ ~Registered(s)
    /\ Made(s, {"connect", "connection"}) = << >>

\* Every middleware called next synchronously: the pipeline ended within
\* the job that called _add.
C5_Witness ==
  \E s \in addedInJob :
    /\ Len(fns[s]) = 2
    /\ calledOk[s] = {1, 2}
    /\ Queued(s)

(***************************************************************************)
(* C6.  _remove twice is _remove once; _remove of a socket that is not in  *)
(* sockets changes nothing; _remove does not throw.                        *)
(***************************************************************************)
C6_Idempotent ==
  /\ ~thrown
  /\ \A s \in 1..nsock :
       LET once == RemoveResult(sockets, SocketId(s))
           twice == RemoveResult(once.sockets, SocketId(s))
       IN  /\ ~once.threw /\ ~twice.threw
           /\ twice.sockets = once.sockets
           /\ ~Registered(s) => once.sockets = sockets

\* One socket was registered and then removed, another is registered.
C6_Witness ==
  \E s, u \in 1..nsock :
    /\ Made(s, {"set"}) # << >>
    /\ ~Registered(s)
    /\ Registered(u)

(***************************************************************************)
(* C7.  emit of a reserved event name throws, and adapter.broadcast is not *)
(* called for it.                                                          *)
(***************************************************************************)
\* The reserved names the claim lists.
ReservedAsStated ==
  { "connect", "disconnect", "disconnecting", "connecting", "newListener",
    "removeListener" }

C7_ReservedRejected ==
  lastEmit.ev \in ReservedAsStated =>
    /\ ~lastEmit.reached
    /\ lastEmit.threw
    /\ lastEmit.to = {}

\* "connect" was emitted on the namespace while a socket was connected.
C7_Witness ==
  /\ lastEmit.ev = "connect"
  /\ lastEmit.via = 0
  /\ thrown
  /\ \E s \in 1..nsock : Registered(s)

(***************************************************************************)
(* C8.  The operator a chain of to/in/except calls ends with has as rooms  *)
(* the union of the rooms handed to to/in and as exceptRooms the union of  *)
(* those handed to except; a call leaves the operator it is called on, and *)
(* every other, as it was.                                                 *)
(***************************************************************************)
C8_Chaining ==
  [][/\ \A o \in 1..Len(ops) : o <= Len(ops') /\ ops'[o] = ops[o]
     /\ \A o \in 1..Len(ops') :
          /\ ops'[o].rooms = given'[o].to
          /\ ops'[o].exceptRooms = given'[o].ex]_vars

\* to("room1") or in("room1") on the namespace, then to("sid1") or in("sid1")
\* on the operator it returned, which still targets "room1" alone.
C8_Witness ==
  /\ Len(ops) = 2
  /\ ops[1] = [rooms |-> {"room1"}, exceptRooms |-> {}, flags |-> << >>]
  /\ ops[2].rooms = {"room1", "sid1"}
  /\ given[2] = [to |-> {"room1", "sid1"}, ex |-> {}, vol |-> 0]

(***************************************************************************)
(* C9.  An emit is delivered to exactly the sockets of the namespace that, *)
(* at the time of the emit, are members of some room targeted (any socket, *)
(* when no room is targeted) and of no room excluded.                      *)
(***************************************************************************)
\* Socket id is a member of room.
MemberOf(id, room) == id \in DOMAIN sids /\ room \in sids[id]

\* The sockets an emit that targets rooms and excludes exceptRooms is for.
Targets(rooms, exceptRooms) ==
  { id \in { SocketId(s) : s \in 1..nsock } :
      /\ id \in DOMAIN sockets
      /\ rooms = {} \/ \E room \in rooms : MemberOf(id, room)
      /\ \A room \in exceptRooms : ~MemberOf(id, room) }

C9_Delivery ==
  [][\A ev \in Events \ ReservedEvents :
       /\ emit(ev) => lastEmit'.to = Targets({}, {})
       /\ \A o \in 1..Len(ops) :
            op_emit(o, ev) => lastEmit'.to = Targets(given[o].to, given[o].ex)]_vars

\* Two sockets are connected; the first alone has joined "room1", and an
\* emit to "room1" was delivered to it alone.
C9_Witness ==
  /\ Registered(1) /\ Registered(2)
  /\ MemberOf("sid1", "room1") /\ ~MemberOf("sid2", "room1")
  /\ lastEmit.ev = "greet"
  /\ lastEmit.via \in 1..Len(ops)
  /\ given[lastEmit.via] = [to |-> {"room1"}, ex |-> {}, vol |-> 0]
  /\ lastEmit.to = {"sid1"}

(***************************************************************************)
(* C10.  Middleware of one admission run one at a time in registration     *)
(* order; middleware of different admissions may be in progress together.  *)
(***************************************************************************)
\* The first function is invoked first, and each later one only after the
\* one before it called next with no error.
InOrder(s) ==
  /\ Len(fns[s]) >= 1 => Executed(s, 1)
  /\ \A i \in FnIds : i > 1 /\ Executed(s, i) => (i - 1) \in calledOk[s]

\* C10 as stated.
C10_AsStated ==
  \A s \in 1..nsock : InOrder(s) /\ InProgress(s) <= 1

\* C10 amended: the order holds always; at most one middleware of an
\* admission is in progress provided every middleware of the admission
\* calls its continuation at most once.
C10_OneAtATime ==
  \A s \in 1..nsock :
    /\ InOrder(s)
    /\ CalledAtMostOnce(s) => InProgress(s) <= 1

\* Two admissions each have a middleware in progress, one of them its second.
C10_Witness ==
  \E s, u \in 1..nsock :
    /\ s # u
    /\ CalledAtMostOnce(s) /\ CalledAtMostOnce(u)
    /\ pend[s][2] = 1
    /\ InProgress(u) = 1

(***************************************************************************)
(* C11.  An operator reached by applying volatile twice has the rooms, the *)
(* excluded rooms and the flags of the one reached by applying it once:    *)
(* the volatile flag is set, once.                                         *)
(***************************************************************************)
\* The flags of an operator on which volatile was applied n times.
FlagsAfter(n) == IF n = 0 THEN << >> ELSE [volatile |-> TRUE]

C11_VolatileIdempotent ==
  \A o \in 1..Len(ops) :
    /\ ops[o].flags = FlagsAfter(given[o].vol)
    /\ ops[o].rooms = given[o].to
    /\ ops[o].exceptRooms = given[o].ex
    /\ given[o].vol >= 1 =>
         /\ DOMAIN ops[o].flags = {"volatile"}
         /\ OpVolatile(ops[o]) = ops[o]

\* volatile on the namespace, then volatile on the operator it returned:
\* the two operators are equal.
C11_Witness ==
  /\ Len(ops) = 2
  /\ given[1].vol = 1 /\ given[2].vol = 2
  /\ ops[2] = ops[1]
  /\ ops[1] = [rooms |-> {}, exceptRooms |-> {}, flags |-> [volatile |-> TRUE]]

(***************************************************************************)
(* C12.  A method called on the namespace itself starts from a new         *)
(* operator with no rooms, no excluded rooms and no flags, whatever was    *)
(* called on the namespace before: to, in, except, compress, volatile and  *)
(* local return that operator with their one change applied; emit,         *)
(* allSockets, fetchSockets, socketsJoin, socketsLeave and                 *)
(* disconnectSockets act on every socket of the namespace.                 *)
(***************************************************************************)
\* The operator returned by the call that this step is.
Returned == ops'[Len(ops')]
\* An operator with no rooms and no excluded rooms, and these flags.
Untargeted(flags) == [rooms |-> {}, exceptRooms |-> {}, flags |-> flags]
\* The identifiers of the sockets of the namespace.
Endpoints == DOMAIN sockets

Completed(s) == Len(fns[s]) = 0 \/ Len(fns[s]) \in calledOk[s]
\* A middleware called its continuation with an error for socket s.
Rejected(s) == calledErr[s] # {}
\* A middleware invoked for socket s has not called its continuation, or
\* the deferred step of socket s has not run.
InFlight(s) == InProgress(s) > 0 \/ Queued(s)

\* What holds of a socket s that is in sockets.
Live(s) ==
  /\ Completed(s)
  /\ ~Rejected(s)
  /\ ~InFlight(s)
  /\ Made(s, {"set"}) # << >>
  /\ Made(s, {"_error"}) = << >>

\* Each entry of sockets is a socket under its own identifier.
OwnIdentifier ==
  \A id \in DOMAIN sockets :
    sockets[id] \in 1..nsock /\ SocketId(sockets[id]) = id

\* A socket enters sockets in a deferred step of its own that finds no
\* error and the transport open.
SetWhenOpen ==
  \A s \in 1..nsock :
    ~Registered(s) /\ Registered(s)' =>
      /\ Tick /\ HeadSock = s
      /\ ~IsErr(Head(tickQueue).err)
      /\ conn[s].readyState = "open"

\* C13 as stated: for every middleware, however often it calls next.
C13_AsStated ==
  /\ [](/\ OwnIdentifier
        /\ \A s \in 1..nsock : Registered(s) => Live(s))
  /\ [][SetWhenOpen]_vars

\* C13 amended: what is stated of a socket in sockets holds provided every
\* middleware of its admission called its continuation at most once; the
\* identifier, and the open transport at the time it is set, hold always.
C13_LiveOnly ==
  /\ [](/\ OwnIdentifier
        /\ \A s \in 1..nsock :
             Registered(s) /\ CalledAtMostOnce(s) => Live(s))
  /\ [][SetWhenOpen]_vars

\* Of two admissions through two middleware, one is registered, the other
\* was rejected and is not; the transports of both are closed since.
C13_Witness ==
  \E s, u \in 1..nsock :
    /\ CalledAtMostOnce(s) /\ CalledAtMostOnce(u)
    /\ Len(fns[s]) = 2 /\ Registered(s) /\ sockets[SocketId(s)] = s
    /\ conn[s].readyState = "closed"
    /\ Rejected(u) /\ ~Registered(u) /\ Made(u, {"_error"}) # << >>

(***************************************************************************)
(* C14.  Admissions are independent: a step of one admission leaves every  *)
(* other admission as it was; a pending middleware of one admission does   *)
(* not keep a middleware of another from calling its continuation, nor a   *)
(* deferred step from running; and the outcome of a deferred step is the   *)
(* outcome it would have were its admission the only one.                  *)
(***************************************************************************)
\* The deferred steps of socket s in the nextTick queue.
StepsOf(s) == SelectSeq(tickQueue, LAMBDA t : t.sock = s)
\* The state of the admission of socket s.
Admission(s) ==
  << fns[s], pend[s], calledOk[s], calledErr[s], extra[s], StepsOf(s),
     trace[s], Registered(s) >>

\* A step changes the admission of one socket at most.
OneAdmissionAtATime ==
  \A s, u \in SocketIds :
    s # u /\ Admission(s)' # Admission(s) => Admission(u)' = Admission(u)

\* The deferred step at the head of the queue does what it would do with
\* no other socket in the namespace.
OutcomeAlone ==
  \A s \in SocketIds :
    Tick /\ HeadSock = s =>
      LET alone == DeferredStep(<< >>, s, conn[s], cb[s], Head(tickQueue).err)
          set == SocketId(s) \in DOMAIN alone.sockets
      IN  /\ trace'[s] = trace[s] \o alone.calls
          /\ Registered(s)' <=> (Registered(s) \/ set)

\* Whatever the other admissions wait for, a middleware that has not called
\* its continuation can call it in a job, and a deferred step can run when
\* no job is on the call stack.
CanProceed ==
  /\ \A s \in 1..nsock : \A i \in 1..Len(fns[s]) :
       pend[s][i] > 0 /\ InJob => ENABLED next(s, i, Null)
  /\ tickQueue # << >> /\ ~running => ENABLED Tick

C14_Independent ==
  /\ []CanProceed
  /\ [][OneAdmissionAtATime /\ OutcomeAlone]_vars

\* The first admission waits for its first middleware; the second, started
\* later through the same middleware, is registered.
C14_Witness ==
  /\ nsock = 2
  /\ Len(fns[1]) >= 1 /\ fns[2] = fns[1]
  /\ pend[1][1] = 1 /\ calledOk[1] = {} /\ calledErr[1] = {}
  /\ ~Registered(1) /\ trace[1] = << >>
  /\ CalledAtMostOnce(2) /\ Registered(2)

(***************************************************************************)
(* C15.  Provided each middleware calls its continuation at most once, run *)
(* calls its callback at most once, so the deferred step runs at most once *)
(* and the admission has one outcome at most: the socket is registered and *)
(* the connect calls are made, or one _error is sent, or nothing is done.  *)
(***************************************************************************)
\* The calls of run's callback for socket s, when every middleware called
\* its continuation at most once: one if the chain is empty, one for each
\* error, one if the last middleware called with no error.
Callbacks(s) ==
  (IF Len(fns[s]) = 0 THEN 1 ELSE 0)
  + Cardinality(calledErr[s])
  + (IF Len(fns[s]) \in calledOk[s] THEN 1 ELSE 0)
\* The deferred steps that have run for socket s.
StepsRun(s) == Callbacks(s) - Len(StepsOf(s))

\* The calls the deferred steps of socket s made are those of one outcome.
OneOutcome(s) ==
  \/ trace[s] = << >>
  \/ /\ Len(trace[s]) = 1
     /\ trace[s][1].ev = "_error" /\ trace[s][1].sock = s
     /\ ~Registered(s)
  \/ trace[s] = AdmissionCalls(s)

C15_OneOutcome ==
  \A s \in 1..nsock :
    CalledAtMostOnce(s) =>
      /\ Callbacks(s) <= 1
      /\ StepsRun(s) \in {0, 1}
      /\ StepsRun(s) = 0 => trace[s] = << >> /\ ~Registered(s)
      /\ OneOutcome(s)
      /\ ~(Made(s, {"_error"}) # << >> /\ Made(s, {"set"}) # << >>)

\* One admission was rejected and sent one _error; another was abandoned:
\* its pipeline completed, its step ran, and nothing was done.
C15_Witness ==
  \E s, u \in 1..nsock :
    /\ CalledAtMostOnce(s) /\ CalledAtMostOnce(u)
    /\ Rejected(s) /\ StepsRun(s) = 1 /\ Len(trace[s]) = 1
    /\ Len(fns[u]) >= 1 /\ Completed(u) /\ StepsRun(u) = 1
    /\ trace[u] = << >>

(***************************************************************************)
(* C16.  A socket is set in sockets at most once, and a socket that        *)
(* _remove has been called with, be it registered or with its pipeline in  *)
(* flight at the time, is not in sockets in any later state.               *)
(***************************************************************************)
C16_RemovedStaysAbsent ==
  \A s \in 1..nsock :
    /\ Len(Made(s, {"set"})) <= 1
    /\ s \in removed => ~Registered(s)

(***************************************************************************)
(* C17.  The chain of an admission is _fns as it was when _add was called: *)
(* use() does not change the chain of an admission that has started, only  *)
(* functions of that chain are executed for it, and an admission that      *)
(* starts after use(fn) has fn as the last of its chain, executed before   *)
(* the admission completes.                                                *)
(***************************************************************************)
\* The function a sequence ends with.
Last(chain) == chain[Len(chain)]

\* Only functions of the chain are executed, and all of them before run
\* calls its callback with null.
ChainExecuted(s) ==
  /\ \A i \in FnIds : Executed(s, i) => i \in 1..Len(fns[s])
  /\ Completed(s) => \A i \in 1..Len(fns[s]) : Executed(s, i)

\* A step leaves the chain of an admission that has started as it is; the
\* chain of the admission a step starts is _fns; use(fn) puts fn last in
\* _fns.
ChainFixedAtStart ==
  /\ \A s \in 1..nsock : fns'[s] = fns[s]
  /\ nsock' # nsock => fns'[nsock'] = _fns /\ _fns' = _fns
  /\ \A fn \in FnIds :
       use(fn) => _fns' # << >> /\ Last(_fns') = fn /\ nsock' = nsock

C17_ChainSnapshot ==
  /\ [](\A s \in 1..nsock : ChainExecuted(s))
  /\ [][ChainFixedAtStart]_vars

\* The first admission started with one function registered and waits for
\* it; a second function was registered since, and the second admission,
\* started after that, has executed it as the second of its chain.
C17_Witness ==
  /\ nsock = 2
  /\ fns[1] = << 1 >> /\ pend[1][1] = 1 /\ ~Executed(1, 2)
  /\ _fns = << 1, 2 >> /\ fns[2] = _fns
  /\ CalledAtMostOnce(2) /\ Executed(2, 2)

(***************************************************************************)
(* C18.  If the transport of an admission stays open and every middleware  *)
(* invoked for it comes to call its continuation, never with an error, the *)
(* socket is set in sockets and "connect" and then "connection" are        *)
(* emitted.  While a middleware invoked for an admission has not called    *)
(* its continuation, the admission has not completed: no deferred step is  *)
(* scheduled, the socket is not registered and no _error was sent.         *)
(***************************************************************************)
\* The socket was set in sockets, and "connect" and then "connection" were
\* emitted for it.
Connected(s) ==
  /\ Made(s, {"set"}) # << >>
  /\ \E k \in 1..(Len(trace[s]) - 1) :
       trace[s][k].ev = "connect" /\ trace[s][k + 1].ev = "connection"

\* Every middleware invoked for socket s comes to call its continuation,
\* none ever calls it with an error, and the transport stays open.
EveryMiddlewareCalls(s) ==
  /\ \A i \in FnIds : (pend[s][i] > 0) ~> (pend[s][i] = 0)
  /\ [](calledErr[s] = {})
  /\ [](conn[s].readyState = "open")

\* The admission of socket s comes to register it and to emit the events.
Eventually(s) ==
  EveryMiddlewareCalls(s) => ((s \in 1..nsock) ~> Connected(s))

\* Nothing has come of the admission of socket s.
NotCompleted(s) ==
  /\ ~Queued(s)
  /\ ~Registered(s)
  /\ trace[s] = << >>

\* fns[s][i] was invoked for socket s and has never called its continuation.
NeverCalled(s, i) ==
  pend[s][i] > 0 /\ i \notin calledOk[s] \cup calledErr[s]

\* C18 as stated: for every middleware, however often the others call next.
C18_AsStated ==
  /\ \A s \in 1..MaxSolo : Eventually(s)
  /\ [](\A s \in 1..nsock : \A i \in FnIds :
          NeverCalled(s, i) => NotCompleted(s))

\* C18 amended: the admission has not completed while a middleware has not
\* called, provided every middleware of the admission calls its
\* continuation at most once.
C18_Progress ==
  /\ \A s \in 1..MaxSolo : Eventually(s)
  /\ [](\A s \in 1..nsock : \A i \in FnIds :
          CalledAtMostOnce(s) /\ NeverCalled(s, i) => NotCompleted(s))

\* An admission through two middleware, each of which called its
\* continuation once, with no error, is registered, its transport open.
C18_Witness ==
  \E s \in 1..nsock :
    /\ CalledAtMostOnce(s)
    /\ Len(fns[s]) = 2 /\ calledOk[s] = {1, 2} /\ calledErr[s] = {}
    /\ conn[s].readyState = "open"
    /\ Registered(s) /\ Connected(s)

(***************************************************************************)
(* C19.  use(fn) puts fn at the end of _fns, keeps the functions before it *)
(* and leaves sockets as it is; the deferred step of a socket and _remove  *)
(* of a socket change no entry of sockets but that socket's and leave _fns *)
(* as it is; _add itself, and to, in, except, compress, volatile, local,   *)
(* emit, allSockets and fetchSockets leave both as they are.               *)
(***************************************************************************)
\* Every entry of sockets but that of id is kept, and none is added.
OthersKept(id) ==
  \A k \in (DOMAIN sockets \cup DOMAIN sockets') \ {id} :
    /\ k \in DOMAIN sockets /\ k \in DOMAIN sockets'
    /\ sockets'[k] = sockets[k]

\* The step is a call of a targeting, flag, emit or query method on the
\* namespace.
SurfaceCall ==
  \/ \E room \in JoinArgs : to(room) \/ in(room) \/ except(room)
  \/ \E c \in BOOLEAN : compress(c)
  \/ volatile
  \/ local
  \/ \E ev \in NsEvents : emit(ev)
  \/ allSockets
  \/ fetchSockets

C19_Frame ==
  [][/\ \A fn \in FnIds :
          use(fn) =>
            /\ Len(_fns') = Len(_fns) + 1
            /\ SubSeq(_fns', 1, Len(_fns)) = _fns
            /\ Last(_fns') = fn
            /\ sockets' = sockets
     /\ \A s \in SocketIds :
          /\ Tick /\ HeadSock = s => OthersKept(SocketId(s)) /\ _fns' = _fns
          /\ _remove(s) =>
               /\ OthersKept(SocketId(s))
               /\ ~Registered(s)'
               /\ _fns' = _fns
     /\ nsock' # nsock => sockets' = sockets /\ _fns' = _fns
     /\ SurfaceCall => sockets' = sockets /\ _fns' = _fns]_vars

\* Two functions are registered, the second after both sockets were
\* registered; the first socket was removed since and the second is still
\* registered; an operator was returned and allSockets has answered.
C19_Witness ==
  /\ _fns = << 1, 2 >>
  /\ fns[1] = << >> /\ fns[2] = << >>
  /\ Made(1, {"set"}) # << >> /\ 1 \in removed /\ ~Registered(1)
  /\ Registered(2)
  /\ ops # << >>
  /\ lastQuery.method = "allSockets" /\ lastQuery.result = {"sid2"}

=============================================================================
